---- MODULE Spec2Model ----
(***************************************************************************)
(* Model of searchlib/queryeval/flow.h: the flow accumulators (AndFlow,    *)
(* OrFlow, AndNotFlow), the ordering comparators, the strict-child         *)
(* selector and the estimate_of / cost_of / sort entry points.             *)
(*                                                                         *)
(* double is modelled as an exact rational <<numerator, denominator>> with *)
(* a positive denominator.  Positions in sequences are 1-based; C++ index  *)
(* i is position i + 1.                                                    *)
(***************************************************************************)
EXTENDS Integers, Sequences, FiniteSets

VARIABLES children, op, kind, strict, input, mid, idx, order, result

vars == <<children, op, kind, strict, input, mid, idx, order, result>>

----------------------------------------------------------------------------
(* Bounds of the model *)

MaxChildren == 3

----------------------------------------------------------------------------
(* Exact arithmetic on rationals.  Intermediate values are any pair with a *)
(* positive denominator; Norm gives the pair in lowest terms, which is     *)
(* what a caller sees returned.                                            *)

RECURSIVE GCD(_, _)
GCD(a, b) == IF b = 0 THEN a ELSE GCD(b, a % b)

Abs(n) == IF n < 0 THEN 0 - n ELSE n

Norm(x) == LET g == GCD(Abs(x[1]), x[2]) IN <<x[1] \div g, x[2] \div g>>

Zero == <<0, 1>>

One == <<1, 1>>

Half == <<1, 2>>

Mul(x, y) == <<x[1] * y[1], x[2] * y[2]>>

Add(x, y) == <<x[1] * y[2] + y[1] * x[2], x[2] * y[2]>>

Sub(x, y) == <<x[1] * y[2] - y[1] * x[2], x[2] * y[2]>>

Eq(x, y) == x[1] * y[2] = y[1] * x[2]

Less(x, y) == x[1] * y[2] < y[1] * x[2]

Leq(x, y) == x[1] * y[2] <= y[1] * x[2]

----------------------------------------------------------------------------
(* Children: the capability contract (estimate, cost, strict_cost) *)

Estimates == {Zero, Half, One}

Costs == {Zero, One}

ChildSet == [estimate : Estimates, cost : Costs, strict_cost : Costs]

Kinds == {"AND", "OR", "ANDNOT"}

SeqsUpTo(S, n) == UNION {[1..k -> S] : k \in 0..n}

----------------------------------------------------------------------------
(* Adapters *)

DefaultAdapter == [indirect |-> FALSE, data |-> <<>>]

IndirectAdapter(adapter, data) == [indirect |-> TRUE, data |-> data]

Adapter_estimate(adapter, child) ==
    IF adapter.indirect THEN adapter.data[child].estimate ELSE child.estimate

Adapter_cost(adapter, child) ==
    IF adapter.indirect THEN adapter.data[child].cost ELSE child.cost

Adapter_strict_cost(adapter, child) ==
    IF adapter.indirect THEN adapter.data[child].strict_cost ELSE child.strict_cost

make_index(cs) == <<>> \o [i \in 1..Len(cs) |-> i]

----------------------------------------------------------------------------
(* Ordering comparators *)

MinAndCost_reversed(adapter, a, b) ==
    Less(Mul(Sub(One, Adapter_estimate(adapter, a)), Adapter_cost(adapter, b)),
         Mul(Sub(One, Adapter_estimate(adapter, b)), Adapter_cost(adapter, a)))

MinAndCost(adapter, a, b) ==
    Less(Mul(Sub(One, Adapter_estimate(adapter, b)), Adapter_cost(adapter, a)),
         Mul(Sub(One, Adapter_estimate(adapter, a)), Adapter_cost(adapter, b)))

MinOrCost(adapter, a, b) ==
    Less(Mul(Adapter_estimate(adapter, b), Adapter_cost(adapter, a)),
         Mul(Adapter_estimate(adapter, a), Adapter_cost(adapter, b)))

MinOrStrictCost(adapter, a, b) ==
    Less(Mul(Adapter_estimate(adapter, b), Adapter_strict_cost(adapter, a)),
         Mul(Adapter_estimate(adapter, a), Adapter_strict_cost(adapter, b)))

(* The template parameter ORDER: dispatch on the comparator's class *)

ORDER(ord, adapter, a, b) ==
    CASE ord = "MinAndCost" -> MinAndCost(adapter, a, b)
      [] ord = "MinOrCost" -> MinOrCost(adapter, a, b)
      [] ord = "MinOrStrictCost" -> MinOrStrictCost(adapter, a, b)

----------------------------------------------------------------------------
(* Flow accumulators *)

AndFlow(in, strict_in) == [kind |-> "AND", flow |-> in, strict |-> strict_in, first |-> TRUE]

AndFlow_add(f, est) == [f EXCEPT !.flow = Mul(f.flow, est), !.first = FALSE]

AndFlow_strict_always(f) == f.strict

AndFlow_strict(f) == f.strict /\ f.first

AndFlow_estimate_no_first(f) == f.flow

AndFlow_estimate(f) == IF f.first THEN Zero ELSE f.flow

OrFlow(in, strict_in) == [kind |-> "OR", flow |-> in, strict |-> strict_in, first |-> TRUE]

OrFlow_add_positional(f, est) ==
    [f EXCEPT !.flow = Mul(f.flow, IF f.first THEN est ELSE Sub(One, est)), !.first = FALSE]

OrFlow_add(f, est) == [f EXCEPT !.flow = Mul(f.flow, Sub(One, est)), !.first = FALSE]

OrFlow_strict(f) == f.strict

OrFlow_estimate(f) == IF f.first THEN Zero ELSE Sub(One, f.flow)

AndNotFlow(in, strict_in) == [kind |-> "ANDNOT", flow |-> in, strict |-> strict_in, first |-> TRUE]

AndNotFlow_add(f, est) ==
    [f EXCEPT !.flow = Mul(f.flow, IF f.first THEN est ELSE Sub(One, est)), !.first = FALSE]

AndNotFlow_strict(f) == f.strict /\ f.first

AndNotFlow_estimate(f) == IF f.first THEN Zero ELSE f.flow

(* The template parameter FLOW / F: dispatch on the accumulator's class *)

FLOW(k, in, strict_in) ==
    CASE k = "AND" -> AndFlow(in, strict_in)
      [] k = "OR" -> OrFlow(in, strict_in)
      [] k = "ANDNOT" -> AndNotFlow(in, strict_in)

Flow_add(f, est) ==
    CASE f.kind = "AND" -> AndFlow_add(f, est)
      [] f.kind = "OR" -> OrFlow_add(f, est)
      [] f.kind = "ANDNOT" -> AndNotFlow_add(f, est)

Flow_flow(f) == f.flow

Flow_strict(f) ==
    CASE f.kind = "AND" -> AndFlow_strict(f)
      [] f.kind = "OR" -> OrFlow_strict(f)
      [] f.kind = "ANDNOT" -> AndNotFlow_strict(f)

Flow_estimate(f) ==
    CASE f.kind = "AND" -> AndFlow_estimate(f)
      [] f.kind = "OR" -> OrFlow_estimate(f)
      [] f.kind = "ANDNOT" -> AndNotFlow_estimate(f)

----------------------------------------------------------------------------
(* Folds over the children *)

RECURSIVE estimate_loop(_, _, _, _)
estimate_loop(adapter, cs, f, i) ==
    IF i > Len(cs) THEN f
    ELSE estimate_loop(adapter, cs, Flow_add(f, Adapter_estimate(adapter, cs[i])), i + 1)

estimate_of(adapter, cs, f) == Flow_estimate(estimate_loop(adapter, cs, f, 1))

RECURSIVE ordered_cost_loop(_, _, _, _, _)
ordered_cost_loop(adapter, cs, f, cost, i) ==
    IF i > Len(cs) THEN cost
    ELSE LET child == cs[i]
             child_cost == IF Flow_strict(f) THEN Adapter_strict_cost(adapter, child)
                                             ELSE Adapter_cost(adapter, child)
         IN ordered_cost_loop(adapter, cs,
                              Flow_add(f, Adapter_estimate(adapter, child)),
                              Add(cost, Mul(Flow_flow(f), child_cost)),
                              i + 1)

ordered_cost_of(adapter, cs, f) == ordered_cost_loop(adapter, cs, f, Zero, 1)

----------------------------------------------------------------------------
(* std::sort(first, last, comp).  The order of equivalent elements is    *)
(* unspecified, and a comparator that is no strict weak ordering makes the *)
(* call undefined: the outcomes are the rearrangements of the range in     *)
(* which no element compares less than its left neighbour (what the        *)
(* insertion pass that ends std::sort leaves behind).  For a strict weak   *)
(* ordering these are exactly the sorted rearrangements.  The call is      *)
(* modelled by the set of permutations q it may apply: position i of the   *)
(* container holds afterwards what position q[i] held before; positions    *)
(* before first are outside the range and keep their element.              *)

PermsUpTo ==
    <<>> \o [n \in 1..MaxChildren |->
                {<<>> \o p : p \in {f \in [1..n -> 1..n] :
                                       \A i, j \in 1..n : f[i] = f[j] => i = j}}]

Perms(n) == IF n = 0 THEN {<<>>} ELSE PermsUpTo[n]

Rearranged(cs, q) == <<>> \o [i \in 1..Len(cs) |-> cs[q[i]]]

Rearrangements(cs) == {Rearranged(cs, q) : q \in Perms(Len(cs))}

InOrder(ord, adapter, cs) ==
    \A i \in 1..(Len(cs) - 1) : ~ORDER(ord, adapter, cs[i + 1], cs[i])

Compared(ord, adapter, cs) ==
    <<>> \o [i \in 1..Len(cs) |->
               <<>> \o [j \in 1..Len(cs) |-> ORDER(ord, adapter, cs[i], cs[j])]]

std_sort_by(less, n, first) ==
    {q \in Perms(n) :
        /\ \A i \in 1..(first - 1) : q[i] = i
        /\ \A i \in first..(n - 1) : ~less[q[i + 1]][q[i]]}

std_sort(ord, adapter, cs, first) ==
    std_sort_by(Compared(ord, adapter, cs), Len(cs), first)

sort(ord, adapter, cs) == std_sort(ord, adapter, cs, 1)

sort_partial(ord, adapter, cs, offset) ==
    IF Len(cs) > offset
    THEN std_sort(ord, adapter, cs, offset + 1)
    ELSE {make_index(cs)}

----------------------------------------------------------------------------
(* Strict-child selector *)

select_child_cost_unweighted(adapter, child, est) == Adapter_cost(adapter, child)

select_child_cost(adapter, child, est) == Mul(est, Adapter_cost(adapter, child))

select_my_diff(child_strict_cost, child_est, cost, child_cost) ==
    Sub(Add(child_strict_cost, Mul(child_est, cost)), Add(cost, child_cost))

select_improves_or_ties(my_diff, best_diff) == Leq(my_diff, best_diff)

select_improves(my_diff, best_diff) == Less(my_diff, best_diff)

RECURSIVE select_loop(_, _, _)
select_loop(adapter, cs, s) ==
    IF s.idx > Len(cs) THEN s.best_idx
    ELSE LET child == cs[s.idx]
             child_cost == select_child_cost(adapter, child, s.est)
             child_strict_cost == Adapter_strict_cost(adapter, child)
             child_est == Adapter_estimate(adapter, child)
             my_diff == select_my_diff(child_strict_cost, child_est, s.cost, child_cost)
             better == s.idx # 1 /\ select_improves(my_diff, s.best_diff)
         IN select_loop(adapter, cs,
                [idx |-> s.idx + 1,
                 cost |-> Add(s.cost, child_cost),
                 best_idx |-> IF better THEN s.idx ELSE s.best_idx,
                 best_diff |-> IF s.idx = 1 THEN Sub(child_strict_cost, child_cost)
                               ELSE IF better THEN my_diff ELSE s.best_diff,
                 est |-> Mul(s.est, child_est)])

select_strict_and_child(adapter, cs) ==
    select_loop(adapter, cs,
                [idx |-> 1, cost |-> Zero, best_idx |-> 1, best_diff |-> Zero, est |-> One])

----------------------------------------------------------------------------
(* FLOW::sort.  The first step sorts the children with the comparator of  *)
(* the FLOW (the permutations that step may apply); AndFlow::sort then     *)
(* moves the selected child of the sorted children to the front.           *)

AndFlow_shift_swap(cs, i) ==
    IF i = 1 THEN cs
    ELSE <<cs[i]>> \o SubSeq(cs, 2, i - 1) \o <<cs[1]>> \o SubSeq(cs, i + 1, Len(cs))

AndFlow_shift(cs, i) ==
    <<cs[i]>> \o SubSeq(cs, 1, i - 1) \o SubSeq(cs, i + 1, Len(cs))

AndFlow_sort_order(adapter, cs, strict_in) == sort("MinAndCost", adapter, cs)

AndFlow_sort_select(adapter, sorted, strict_in) ==
    IF strict_in /\ Len(sorted) > 1 THEN select_strict_and_child(adapter, sorted) ELSE 1

AndFlow_sort_strict(adapter, sorted, strict_in) ==
    IF strict_in /\ Len(sorted) > 1
    THEN AndFlow_shift(sorted, AndFlow_sort_select(adapter, sorted, strict_in))
    ELSE sorted

OrFlow_sort_order(adapter, cs, strict_in) ==
    IF strict_in THEN sort("MinOrStrictCost", adapter, cs)
                 ELSE sort("MinOrCost", adapter, cs)

AndNotFlow_sort_order_full(adapter, cs, strict_in) == sort_partial("MinOrCost", adapter, cs, 0)

AndNotFlow_sort_order(adapter, cs, strict_in) == sort_partial("MinOrCost", adapter, cs, 1)

Flow_sort_order(k, adapter, cs, strict_in) ==
    CASE k = "AND" -> AndFlow_sort_order(adapter, cs, strict_in)
      [] k = "OR" -> OrFlow_sort_order(adapter, cs, strict_in)
      [] k = "ANDNOT" -> AndNotFlow_sort_order(adapter, cs, strict_in)

Flow_sort_select(k, adapter, sorted, strict_in) ==
    IF k = "AND" THEN AndFlow_sort_select(adapter, sorted, strict_in) ELSE 1

Flow_sort_result(k, adapter, sorted, strict_in) ==
    IF k = "AND" THEN AndFlow_sort_strict(adapter, sorted, strict_in) ELSE sorted

----------------------------------------------------------------------------
(* State machine: a caller holding a child vector makes one call on it.     *)
(* Every call reads nothing but the vector and its own arguments, and      *)
(* every vector is an initial state, so a second call on the same caller   *)
(* would reach no outcome that a first call does not reach.                *)

NoCall == "none"

Init ==
    /\ children \in SeqsUpTo(ChildSet, MaxChildren)
    /\ op = NoCall
    /\ kind = "AND"
    /\ strict = FALSE
    /\ input = <<>>
    /\ mid = <<>>
    /\ idx = 1
    /\ order = <<>>
    /\ result = Zero

(* FlowMixin<FLOW>::estimate_of(children) *)
EstimateOf(k) ==
    /\ op = NoCall
    /\ op' = "estimate_of"
    /\ kind' = k
    /\ strict' = FALSE
    /\ result' = Norm(estimate_of(DefaultAdapter, children, FLOW(k, One, FALSE)))
    /\ input' = <<>>
    /\ mid' = <<>>
    /\ idx' = 1
    /\ order' = <<>>
    /\ UNCHANGED children

(* FlowMixin<FLOW>::cost_of(children, strict): q is what the sort does to  *)
(* the index, sorted the index after FLOW::sort, cost the returned total.  *)
CostOf(k, s) ==
    /\ op = NoCall
    /\ \E q \in Flow_sort_order(k, IndirectAdapter(DefaultAdapter, children),
                                make_index(children), s) :
       \E sorted \in {Flow_sort_result(k, IndirectAdapter(DefaultAdapter, children),
                                        Rearranged(make_index(children), q), s)} :
       \E cost \in {Norm(ordered_cost_of(IndirectAdapter(DefaultAdapter, children),
                                          sorted, FLOW(k, One, s)))} :
        /\ op' = "cost_of"
        /\ kind' = k
        /\ strict' = s
        /\ order' = sorted
        /\ result' = cost
        /\ input' = <<>>
        /\ mid' = <<>>
        /\ idx' = 1
        /\ UNCHANGED children

(* FLOW::sort(children, strict): sorts the caller's vector in place; q is  *)
(* what the sort does to the vector, sorted the vector after that step.    *)
Sort(k, s) ==
    /\ op = NoCall
    /\ \E q \in Flow_sort_order(k, DefaultAdapter, children, s) :
       \E sorted \in {Rearranged(children, q)} :
        /\ op' = "sort"
        /\ kind' = k
        /\ strict' = s
        /\ input' = children
        /\ mid' = sorted
        /\ idx' = Flow_sort_select(k, DefaultAdapter, sorted, s)
        /\ children' = Flow_sort_result(k, DefaultAdapter, sorted, s)
        /\ order' = <<>>
        /\ result' = Zero

(* flow::select_strict_and_child(DefaultAdapter, children) *)
SelectStrictAndChild ==
    /\ op = NoCall
    /\ op' = "select"
    /\ kind' = "AND"
    /\ strict' = TRUE
    /\ idx' = select_strict_and_child(DefaultAdapter, children)
    /\ input' = <<>>
    /\ mid' = <<>>
    /\ order' = <<>>
    /\ result' = Zero
    /\ UNCHANGED children

NextEstimate == \E k \in Kinds : EstimateOf(k)

NextCost == \E k \in Kinds, s \in BOOLEAN : CostOf(k, s)

NextSortAnd == \E s \in BOOLEAN : Sort("AND", s)

NextSortOr == \E s \in BOOLEAN : Sort("OR", s)

NextSortAndNot == \E s \in BOOLEAN : Sort("ANDNOT", s)

NextSort ==
    \/ NextSortAnd
    \/ NextSortOr
    \/ NextSortAndNot

NextSelect == SelectStrictAndChild

Next ==
    \/ NextEstimate
    \/ NextCost
    \/ NextSort
    \/ NextSelect

Spec == Init /\ [][Next]_vars

(* The callers of one entry point each *)

SpecEstimate == Init /\ [][NextEstimate]_vars

SpecCost == Init /\ [][NextCost]_vars

SpecSort == Init /\ [][NextSort]_vars

SpecSortAnd == Init /\ [][NextSortAnd]_vars

SpecSortOr == Init /\ [][NextSortOr]_vars

SpecSortAndNot == Init /\ [][NextSortAndNot]_vars

SpecSelect == Init /\ [][NextSelect]_vars

----------------------------------------------------------------------------
(* Properties *)

RECURSIVE ProductOfEstimates(_)
ProductOfEstimates(cs) ==
    IF cs = <<>> THEN One ELSE Mul(Head(cs).estimate, ProductOfEstimates(Tail(cs)))

AndFlowAfter(cs, k) == estimate_loop(DefaultAdapter, SubSeq(cs, 1, k), AndFlow(One, FALSE), 1)

(* C7: AndFlow estimate_of returns the product of the children's estimates  *)
(* for one or more children and 0 for none; once a child with estimate 0   *)
(* has been added, flow() is 0 before every later child and the final      *)
(* estimate is 0.                                                          *)
C7_AndEstimateIsProduct ==
    (op = "estimate_of" /\ kind = "AND") =>
        /\ Eq(result, IF Len(children) = 0 THEN Zero ELSE ProductOfEstimates(children))
        /\ \A z \in 1..Len(children) :
              children[z].estimate = Zero =>
                /\ \A k \in z..Len(children) : Eq(Flow_flow(AndFlowAfter(children, k)), Zero)
                /\ result = Zero

C7_Witness ==
    /\ op = "estimate_of" /\ kind = "AND"
    /\ Len(children) = 3
    /\ children[1].estimate = Half
    /\ children[2].estimate = Zero
    /\ children[3].estimate = One
    /\ result = Zero

EstimateOfKind(k, cs) == estimate_of(DefaultAdapter, cs, FLOW(k, One, FALSE))

(* C5 as stated: for AND, OR and AND-NOT estimate_of returns the same value *)
(* for every permutation of the child sequence.                            *)
C5_OrderIndependentAllKinds ==
    op = "estimate_of" =>
        \A p \in Rearrangements(children) : Eq(EstimateOfKind(kind, p), result)

(* C5 amended: estimate_of returns the same value for every permutation of *)
(* the child sequence for AND and OR; for AND-NOT it returns the same      *)
(* value for every permutation that keeps the first child first.           *)
C5_OrderIndependent ==
    op = "estimate_of" =>
        /\ kind \in {"AND", "OR"} =>
              \A p \in Rearrangements(children) : Eq(EstimateOfKind(kind, p), result)
        /\ (kind = "ANDNOT" /\ Len(children) > 0) =>
              \A t \in Rearrangements(Tail(children)) :
                  Eq(EstimateOfKind(kind, <<Head(children)>> \o t), result)

C5_Witness ==
    /\ op = "estimate_of" /\ kind = "ANDNOT"
    /\ Len(children) = 3
    /\ children[1].estimate = Half
    /\ children[2].estimate = Zero
    /\ children[3].estimate = Half
    /\ result = <<1, 4>>

AndCost(cs, strict_in) == ordered_cost_of(DefaultAdapter, cs, AndFlow(One, strict_in))

ShiftToFront(cs, i) ==
    <<>> \o [j \in 1..Len(cs) |->
               IF j = 1 THEN cs[i] ELSE IF j <= i THEN cs[j - 1] ELSE cs[j]]

SwapAdjacent(cs, i) ==
    <<>> \o [j \in 1..Len(cs) |->
               IF j = i THEN cs[i + 1] ELSE IF j = i + 1 THEN cs[i] ELSE cs[j]]

(* C1: for two or more AND children in MinAndCost order, the position that  *)
(* select_strict_and_child returns minimizes the strict total cost: the    *)
(* cost of the sequence with that child shifted to the front is no more    *)
(* than the cost with any other child shifted to the front.                *)
C1_SelectMinimizesStrictCost ==
    (op = "sort" /\ kind = "AND" /\ strict /\ Len(mid) >= 2) =>
        /\ InOrder("MinAndCost", DefaultAdapter, mid)
        /\ idx = select_strict_and_child(DefaultAdapter, mid)
        /\ LET selected == AndCost(ShiftToFront(mid, idx), TRUE)
           IN \A j \in 1..Len(mid) : Leq(selected, AndCost(ShiftToFront(mid, j), TRUE))

C1_Witness ==
    /\ op = "sort" /\ kind = "AND" /\ strict
    /\ Len(mid) = 3
    /\ idx = 3
    /\ Less(AndCost(ShiftToFront(mid, 3), TRUE), AndCost(ShiftToFront(mid, 1), TRUE))
    /\ Less(AndCost(ShiftToFront(mid, 3), TRUE), AndCost(ShiftToFront(mid, 2), TRUE))

(* C2: in the order AndFlow::sort produces with strict = false, swapping   *)
(* any two adjacent children does not decrease the total non-strict cost.  *)
C2_ExchangeProperty ==
    (op = "sort" /\ kind = "AND" /\ ~strict) =>
        LET sorted == AndCost(children, FALSE)
        IN \A i \in 1..(Len(children) - 1) :
              Leq(sorted, AndCost(SwapAdjacent(children, i), FALSE))

C2_Witness ==
    /\ op = "sort" /\ kind = "AND" /\ ~strict
    /\ Len(children) = 3
    /\ children # input
    /\ \A i \in 1..2 : Less(AndCost(children, FALSE), AndCost(SwapAdjacent(children, i), FALSE))

(* C4: AndNotFlow::sort leaves the first child where it is, whatever the   *)
(* strict flag and also for an empty or one-child sequence; the children   *)
(* after it are rearranged among themselves into MinOrCost order.          *)
C4_AndNotKeepsFirst ==
    (op = "sort" /\ kind = "ANDNOT") =>
        /\ Len(children) = Len(input)
        /\ Len(input) > 0 =>
              /\ children[1] = input[1]
              /\ \E q \in Perms(Len(input) - 1) : Tail(children) = Rearranged(Tail(input), q)
              /\ InOrder("MinOrCost", DefaultAdapter, Tail(children))

C4_Witness ==
    /\ op = "sort" /\ kind = "ANDNOT" /\ strict
    /\ Len(input) = 3
    /\ MinOrCost(DefaultAdapter, input[3], input[1])
    /\ MinOrCost(DefaultAdapter, input[3], input[2])
    /\ children = <<input[1], input[3], input[2]>>

(* C9: AndFlow::sort with strict = true and two or more children puts the  *)
(* selected child of the MinAndCost-sorted sequence first, moves the       *)
(* children that were before it one position to the right in unchanged     *)
(* order and leaves the children after it where they were.                 *)
C9_ShiftingInsert ==
    (op = "sort" /\ kind = "AND" /\ strict /\ Len(input) >= 2) =>
        /\ \E q \in Perms(Len(input)) : mid = Rearranged(input, q)
        /\ Len(children) = Len(mid)
        /\ idx \in 1..Len(mid)
        /\ children[1] = mid[idx]
        /\ \A j \in 1..(idx - 1) : children[j + 1] = mid[j]
        /\ \A j \in (idx + 1)..Len(mid) : children[j] = mid[j]

C9_Witness ==
    /\ op = "sort" /\ kind = "AND" /\ strict
    /\ Len(mid) = 3
    /\ idx = 3
    /\ mid[1] # mid[2]
    /\ children = <<mid[3], mid[1], mid[2]>>

RECURSIVE PrefixEst(_, _)
PrefixEst(cs, i) == IF i = 1 THEN One ELSE Mul(PrefixEst(cs, i - 1), cs[i - 1].estimate)

RECURSIVE PrefixCost(_, _)
PrefixCost(cs, i) ==
    IF i = 1 THEN Zero
    ELSE Add(PrefixCost(cs, i - 1), Mul(PrefixEst(cs, i - 1), cs[i - 1].cost))

CodeScore(cs, i) ==
    IF i = 1 THEN Sub(cs[1].strict_cost, cs[1].cost)
    ELSE Sub(Add(cs[i].strict_cost, Mul(cs[i].estimate, PrefixCost(cs, i))),
             Add(PrefixCost(cs, i), Mul(PrefixEst(cs, i), cs[i].cost)))

ClaimedScore(cs, i) ==
    IF i = 1 THEN cs[1].strict_cost
    ELSE Sub(Add(cs[i].strict_cost, Mul(cs[i].estimate, PrefixCost(cs, i))),
             Add(PrefixCost(cs, i), cs[i].cost))

LowestMinimum(Score(_, _), cs, i) ==
    /\ i \in 1..Len(cs)
    /\ \A j \in 1..Len(cs) : Leq(Score(cs, i), Score(cs, j))
    /\ \A j \in 1..(i - 1) : Less(Score(cs, i), Score(cs, j))

(* C10 as stated: select_strict_and_child scores the first child as        *)
(* strict_cost and every later child i as strict_cost(i) +                 *)
(* estimate(i)*cost_so_far - (cost_so_far + cost(i)), and returns the      *)
(* lowest position with the smallest score.                                *)
C10_SelectScoresAsStated ==
    (op = "select" /\ Len(children) >= 1) => LowestMinimum(ClaimedScore, children, idx)

(* C10 amended: select_strict_and_child scores the first child as          *)
(* strict_cost - cost and every later child i as strict_cost(i) +          *)
(* estimate(i)*cost_so_far - (cost_so_far + est_so_far*cost(i)), where     *)
(* est_so_far is the product of the estimates of the children before i and *)
(* cost_so_far the sum of their costs, each weighted by the product of the *)
(* estimates before it; it returns the lowest position with the smallest   *)
(* score.                                                                  *)
C10_SelectScores ==
    (op = "select" /\ Len(children) >= 1) => LowestMinimum(CodeScore, children, idx)

C10_Witness ==
    /\ op = "select"
    /\ Len(children) = 3
    /\ idx = 2
    /\ Eq(CodeScore(children, 2), CodeScore(children, 3))
    /\ Less(CodeScore(children, 2), CodeScore(children, 1))
    /\ children[1].estimate = Half

FlowBefore(k, cs, strict_in, i) ==
    estimate_loop(DefaultAdapter, SubSeq(cs, 1, i - 1), FLOW(k, One, strict_in), 1)

Charge(k, strict_in, child, i) ==
    IF strict_in /\ (k = "OR" \/ i = 1) THEN child.strict_cost ELSE child.cost

RECURSIVE SumOfCharges(_, _, _, _)
SumOfCharges(k, cs, strict_in, n) ==
    IF n = 0 THEN Zero
    ELSE Add(SumOfCharges(k, cs, strict_in, n - 1),
             Mul(Flow_flow(FlowBefore(k, cs, strict_in, n)), Charge(k, strict_in, cs[n], n)))

(* C8: cost_of with strict = true charges strict_cost to the first child   *)
(* of the final order only for AND and AND-NOT and to every child for OR;  *)
(* with strict = false it charges cost to every child; each charge is      *)
(* weighted by flow() read before that child's estimate is added.          *)
C8_StrictCharges ==
    op = "cost_of" =>
        /\ order \in Perms(Len(children))
        /\ Eq(result, SumOfCharges(kind, Rearranged(children, order), strict, Len(order)))

C8_Witness ==
    /\ op = "cost_of" /\ kind = "AND" /\ strict
    /\ Len(children) = 3
    /\ order = <<3, 1, 2>>
    /\ \A i \in 1..3 : children[i].strict_cost # children[i].cost
    /\ children[3].estimate = Half /\ children[1].estimate = Half
    /\ result = <<3, 4>>

CostOfOutcomes(k, cs, strict_in) ==
    {ordered_cost_of(IndirectAdapter(DefaultAdapter, cs),
                     Flow_sort_result(k, IndirectAdapter(DefaultAdapter, cs),
                                      Rearranged(make_index(cs), q), strict_in),
                     FLOW(k, One, strict_in)) :
        q \in Flow_sort_order(k, IndirectAdapter(DefaultAdapter, cs), make_index(cs), strict_in)}

(* C6: when the children are rearranged into the order the sort produced,  *)
(* cost_of on the rearranged sequence with the same strict flag returns    *)
(* the total cost that cost_of returned on the original sequence.          *)
C6_OrderingStable ==
    op = "cost_of" =>
        \A c \in CostOfOutcomes(kind, Rearranged(children, order), strict) : Eq(c, result)

Elements(cs) == {cs[i] : i \in 1..Len(cs)}

StrictWeakOrdering(ord, S) ==
    LET less(a, b) == ORDER(ord, DefaultAdapter, a, b)
        tie(a, b) == ~less(a, b) /\ ~less(b, a)
    IN \A a, b, c \in S :
          /\ ~less(a, a)
          /\ (less(a, b) /\ less(b, c)) => less(a, c)
          /\ (tie(a, b) /\ tie(b, c)) => tie(a, c)

(* C3: MinAndCost, MinOrCost and MinOrStrictCost are strict weak orderings *)
(* of the children: no child is less than itself, less-than is transitive  *)
(* and so is being tied.                                                   *)
C3_StrictWeakOrderings ==
    /\ StrictWeakOrdering("MinAndCost", Elements(children))
    /\ StrictWeakOrdering("MinOrCost", Elements(children))
    /\ StrictWeakOrdering("MinOrStrictCost", Elements(children))

====
